---- MODULE Spec2Model ----
(***************************************************************************)
(* Model of the Ayaka session core: the GameViewModel (ayaka-model,        *)
(* view_model.rs) on top of the runtime Context (ayaka-runtime,            *)
(* context.rs).  Strings are sequences of one-character strings, so that   *)
(* trimming and decimal formatting are computed, not assumed.              *)
(***************************************************************************)
EXTENDS Integers, Sequences, FiniteSets, TLC

\* ------------------------------------------------------------------ bounds
\* Forward play stops being scheduled once the history holds this many entries.
MaxHistory == 4
\* Iterations of the loop of Context::next_run before the call counts as not returning.
MaxLoop == 6
\* Largest index passed to switch.
MaxSwitchArg == 2
\* Most options of a Switches action handed to merge_action on its own.
MaxOptions == 2
\* Advances counted after an init_new.
MaxSteps == 5

\* ----------------------------------------------------------------- strings
White == {" ", "\t", "\n"}

Digits == <<"0", "1", "2", "3", "4", "5", "6", "7", "8", "9">>

RECURSIVE usize_to_string(_)
usize_to_string(n) ==
    IF n < 10 THEN <<Digits[n + 1]>>
    ELSE usize_to_string(n \div 10) \o <<Digits[(n % 10) + 1]>>

i64_to_string(n) == IF n < 0 THEN <<"-">> \o usize_to_string(0 - n) ELSE usize_to_string(n)

RECURSIVE trim_start(_)
trim_start(s) == IF s # <<>> /\ Head(s) \in White THEN trim_start(Tail(s)) ELSE s

RECURSIVE trim_end(_)
trim_end(s) ==
    IF s # <<>> /\ s[Len(s)] \in White THEN trim_end(SubSeq(s, 1, Len(s) - 1)) ELSE s

trim(s) == trim_end(trim_start(s))

\* --------------------------------------------------------------- RawValue
Unit == [t |-> "Unit", b |-> FALSE, n |-> 0, s |-> <<>>]
Bool(x) == [t |-> "Bool", b |-> x, n |-> 0, s |-> <<>>]
Num(x) == [t |-> "Num", b |-> FALSE, n |-> x, s |-> <<>>]
Str(x) == [t |-> "Str", b |-> FALSE, n |-> 0, s |-> x]

get_bool(v) ==
    CASE v.t = "Unit" -> FALSE
      [] v.t = "Bool" -> v.b
      [] v.t = "Num" -> v.n # 0
      [] OTHER -> v.s # <<>>

get_str(v) ==
    CASE v.t = "Unit" -> <<>>
      [] v.t = "Bool" -> IF v.b THEN <<"t", "r", "u", "e">> ELSE <<"f", "a", "l", "s", "e">>
      [] v.t = "Num" -> i64_to_string(v.n)
      [] OTHER -> v.s

\* A VarMap: a function from keys (strings) to RawValues.
EmptyMap == [k \in {} |-> Unit]

insert(m, k, v) == [x \in (DOMAIN m) \cup {k} |-> IF x = k THEN v ELSE m[x]]

remove(m, k) == [x \in (DOMAIN m) \ {k} |-> m[x]]

\* HashMap::extend: the entries of e overwrite those of m.
extend(m, e) == [x \in (DOMAIN m) \cup (DOMAIN e) |-> IF x \in DOMAIN e THEN e[x] ELSE m[x]]

\* ------------------------------------------------------------------- story
None == <<>>
Some(x) == <<x>>

SStr(s) == [t |-> "Str", s |-> s, cmd |-> <<>>, args |-> <<>>]
SCmd(c, a) == [t |-> "Cmd", s |-> <<>>, cmd |-> c, args |-> a]

\* Line::Text without a character tag, given the sub_texts of its Text.
Text(sub_texts) ==
    [kind |-> "Text", switches |-> <<>>, props |-> <<>>,
     sub_texts |-> sub_texts, ch_tag |-> <<>>, ch_alias |-> <<>>]
TextLine == Text(<<SStr(<<"h", "i">>)>>)
EmptyLine == [kind |-> "Empty", switches |-> <<>>, props |-> <<>>]
SwitchLine(labels) == [kind |-> "Switch", switches |-> labels, props |-> <<>>]
CustomLine(keys) == [kind |-> "Custom", switches |-> <<>>, props |-> keys]

Para(tag, texts, next) == [tag |-> tag, texts |-> texts, next |-> next]

RawContext(base, para, act, locals) ==
    [cur_base_para |-> base, cur_para |-> para, cur_act |-> act, locals |-> locals]

RawContextDefault == RawContext(<<>>, <<>>, 0, EmptyMap)

BaseLang == "en"

VAR == <<"v", "a", "r">>
Q == <<"?">>

\* The translation of the first paragraph of StoryBranch: a text that opens
\* with a blank fragment, a text where the base locale has a custom line, a
\* switch with one label only, and no fourth line.
StoryBranchJa ==
    <<"a">> :> <<
        Para(<<"a">>, <<Text(<<SStr(<<" ">>), SStr(<<"j">>)>>), Text(<<SStr(<<"k">>)>>),
                        SwitchLine(<<<<"C">>>>)>>, None) >>

\* A branching story: text, a custom line, a two-way switch, a next_expr that
\* reads the choice, a next_expr with surrounding blanks, an included file.
StoryBranch ==
    [start |-> <<"a">>,
     paras |-> [l \in {BaseLang, "ja"} |->
        IF l = "ja" THEN StoryBranchJa ELSE
        (<<"a">> :> <<
            Para(<<"a">>, <<TextLine, CustomLine(<<<<"x">>>>), SwitchLine(<<<<"A">>, <<"B">>>>), TextLine>>,
                 Some(<<SStr(<<"b">>), SCmd(VAR, <<SStr(Q)>>)>>)),
            Para(<<"b", "0">>, <<TextLine, EmptyLine, TextLine>>,
                 Some(<<SStr(<<" ", "c", " ">>)>>)),
            Para(<<"b", "1">>, <<CustomLine(<<<<"y">>>>), TextLine>>, None) >>)
        @@ (<<"c">> :> <<
            Para(<<"c">>, <<TextLine, TextLine>>, Some(<<SStr(<<"d">>)>>)) >>)]]

\* A paragraph whose next_expr names the paragraph itself.
StoryLoop ==
    [start |-> <<"p">>,
     paras |-> [l \in {BaseLang} |->
        (<<"p">> :> <<
            Para(<<"p">>, <<TextLine, TextLine>>, Some(<<SStr(<<"p">>)>>)) >>)]]

\* p1: two text lines, then p2.
StoryTwo ==
    [start |-> <<"p", "1">>,
     paras |-> [l \in {BaseLang} |->
        (<<"p", "1">> :> <<
            Para(<<"p", "1">>, <<TextLine, TextLine>>, Some(<<SStr(<<"p", "2">>)>>)),
            Para(<<"p", "2">>, <<TextLine>>, None) >>)]]

\* Paragraphs without lines between two texts; the last next_expr is a text command.
StoryChain ==
    [start |-> <<"e">>,
     paras |-> [l \in {BaseLang} |->
        (<<"e">> :> <<
            Para(<<"e">>, <<TextLine>>, Some(<<SStr(<<"e", "1">>)>>)),
            Para(<<"e", "1">>, <<>>, Some(<<SStr(<<"e", "2">>)>>)),
            Para(<<"e", "2">>, <<>>, Some(<<SCmd(<<"t">>, <<>>)>>)),
            Para(<<"c">>, <<TextLine>>, None) >>)]]

\* Two paragraphs without lines whose next_expr name each other.
StoryCycle ==
    [start |-> <<"q">>,
     paras |-> [l \in {BaseLang} |->
        (<<"q">> :> <<
            Para(<<"q">>, <<TextLine>>, Some(<<SStr(<<"z", "1">>)>>)),
            Para(<<"z", "1">>, <<>>, Some(<<SStr(<<"z", "2">>)>>)),
            Para(<<"z", "2">>, <<>>, Some(<<SStr(<<"z", "1">>)>>)) >>)]]

\* A story over two files: the next_expr of s names the paragraph u of the
\* file u, and that of u names a paragraph no file has.
StoryClimb ==
    [start |-> <<"s">>,
     paras |-> [l \in {BaseLang} |->
        (<<"s">> :> << Para(<<"s">>, <<TextLine>>, Some(<<SStr(<<"u">>)>>)) >>)
        @@ (<<"u">> :> << Para(<<"u">>, <<TextLine>>, Some(<<SStr(<<"v">>)>>)) >>)]]

\* Commands that have a line-command handler, and those with a text-command handler.
LineModules == {<<"x">>}
TextModules == {<<"t">>}

\* What a line-command handler can answer: a failure, or locals and vars.
LineErr == [ok |-> FALSE, locals |-> EmptyMap, vars |-> EmptyMap]
LineOk(l, v) == [ok |-> TRUE, locals |-> l, vars |-> v]
LineResults ==
    {LineErr,
     LineOk(EmptyMap, EmptyMap),
     LineOk((<<"0">> :> Bool(FALSE)) @@ (<<"1">> :> Unit) @@ (<<"m">> :> Num(7)),
            <<"k">> :> Num(1))}

\* What a text-command handler can answer: a failure, or a text.
TextErr == [ok |-> FALSE, s |-> <<>>]
TextOk(s) == [ok |-> TRUE, s |-> s]
TextResults == {TextErr, TextOk(<<"c">>)}

GameOf(g) ==
    CASE g = "branch" -> StoryBranch
      [] g = "loop" -> StoryLoop
      [] g = "chain" -> StoryChain
      [] g = "cycle" -> StoryCycle
      [] g = "climb" -> StoryClimb
      [] OTHER -> StoryTwo

GameNames == {"branch", "loop", "two", "chain", "cycle", "climb"}

\* ------------------------------------------------------------ Game lookups
\* Game::find_para: the paragraph tagged `tag` of the file `base_tag` in locale loc.
RECURSIVE find_tag(_, _)
find_tag(ps, tag) ==
    IF ps = <<>> THEN None
    ELSE IF Head(ps).tag = tag THEN Some(Head(ps)) ELSE find_tag(Tail(ps), tag)

find_para(game, loc, base_tag, tag) ==
    IF loc \in DOMAIN game.paras /\ base_tag \in DOMAIN game.paras[loc]
    THEN find_tag(game.paras[loc][base_tag], tag)
    ELSE None

\* Game::start_context
start_context(game) == RawContext(game.start, game.start, 0, EmptyMap)

\* Vec::get
get(v, i) == IF i + 1 \in DOMAIN v THEN Some(v[i + 1]) ELSE None

\* ------------------------------------------------------- Context: scripts
\* The match on the command name in Context::parse_sub_text with loc = None,
\* given the evaluated arguments: [ok, s] with s the string of the ActionText
\* built, ok = FALSE when the text plugin failed.
dispatch_cmd(cmd, arg_strings, locals, textRes) ==
    CASE cmd = <<"r", "e", "s">> -> [ok |-> TRUE, s |-> <<>>]
      [] cmd = VAR ->
            IF arg_strings # <<>> /\ arg_strings[1] \in DOMAIN locals
            THEN [ok |-> TRUE, s |-> get_str(locals[arg_strings[1]])]
            ELSE [ok |-> TRUE, s |-> <<>>]
      [] OTHER ->
            IF cmd \in TextModules
            THEN (IF textRes.ok THEN [ok |-> TRUE, s |-> textRes.s]
                  ELSE [ok |-> FALSE, s |-> <<>>])
            ELSE [ok |-> TRUE, s |-> <<>>]

\* Context::parse_sub_text over a sequence of sub-texts (the arguments of a
\* command, or the sub_texts of a Text): [ok, strs], one string per sub-text;
\* the first failure ends the evaluation.
RECURSIVE parse_sub_text(_, _, _)
parse_sub_text(sub_texts, locals, textRes) ==
    IF sub_texts = <<>> THEN [ok |-> TRUE, strs |-> <<>>]
    ELSE LET sub_text == Head(sub_texts)
             a == parse_sub_text(sub_text.args, locals, textRes)
             h == IF sub_text.t = "Str" THEN [ok |-> TRUE, s |-> sub_text.s]
                  ELSE IF ~a.ok THEN [ok |-> FALSE, s |-> <<>>]
                  ELSE dispatch_cmd(sub_text.cmd, a.strs, locals, textRes)
             r == parse_sub_text(Tail(sub_texts), locals, textRes)
         IN  IF ~h.ok THEN [ok |-> FALSE, strs |-> <<>>]
             ELSE IF ~r.ok THEN r
             ELSE [ok |-> TRUE, strs |-> <<h.s>> \o r.strs]

RECURSIVE concat(_)
concat(strs) == IF strs = <<>> THEN <<>> ELSE Head(strs) \o concat(Tail(strs))

\* Context::call: Ok(trimmed concatenation) or Err.
call(text, locals, textRes) ==
    LET r == parse_sub_text(text, locals, textRes)
    IN  IF r.ok THEN [ok |-> TRUE, s |-> trim(concat(r.strs))] ELSE [ok |-> FALSE, s |-> <<>>]

\* unwrap_or_default_log!(self.call(text), ...)
call_or_default(text, locals, textRes) ==
    LET r == call(text, locals, textRes) IN IF r.ok THEN r.s ELSE <<>>

\* ---------------------------------------------------- Context: navigation
current_paragraph_display_locale(game, ctx) ==
    find_para(game, "ja", ctx.cur_base_para, ctx.cur_para)

\* Context::current_paragraph: looked up under the base locale of the game.
current_paragraph(game, ctx) == find_para(game, BaseLang, ctx.cur_base_para, ctx.cur_para)

current_text(game, ctx) ==
    LET p == current_paragraph(game, ctx)
    IN  IF p = None THEN None ELSE get(p[1].texts, ctx.cur_act)

next_para_keep_act(cur_para, ctx, textRes) ==
    [ctx EXCEPT !.cur_para = IF cur_para[1].next = None THEN <<>>
                             ELSE call_or_default(cur_para[1].next[1], ctx.locals, textRes)]

next_para_absent_to_base(cur_para, ctx, textRes) ==
    [ctx EXCEPT !.cur_para = IF cur_para[1].next = None THEN ctx.cur_base_para
                             ELSE call_or_default(cur_para[1].next[1], ctx.locals, textRes),
                !.cur_act = 0]

next_para_to_act_one(cur_para, ctx, textRes) ==
    [ctx EXCEPT !.cur_para = IF cur_para[1].next = None THEN <<>>
                             ELSE call_or_default(cur_para[1].next[1], ctx.locals, textRes),
                !.cur_act = 1]

\* The (true, false) arm of the loop: the paragraph is exhausted.
next_para(cur_para, ctx, textRes) ==
    [ctx EXCEPT !.cur_para = IF cur_para[1].next = None THEN <<>>
                             ELSE call_or_default(cur_para[1].next[1], ctx.locals, textRes),
                !.cur_act = 0]

\* The else arm of (false, _): climb to the paragraph's own file.
promote_to_base(ctx) == [ctx EXCEPT !.cur_para = ctx.cur_base_para]

\* The else arm of the (false, _) arm: look in the file named after the paragraph.
promote(ctx) == [ctx EXCEPT !.cur_base_para = ctx.cur_para]

at_top_level_and_empty(ctx) == ctx.cur_base_para = ctx.cur_para /\ ctx.cur_para = <<>>

\* The test of the (false, _) arm: is the missing paragraph looked for in the
\* file of its own name?
at_top_level(ctx) == ctx.cur_base_para = ctx.cur_para

\* The loop of Context::next_run.  st: "found" (break cur_text), "none"
\* (return None), "diverge" (MaxLoop iterations did not end it).  switched
\* counts the passes through the exhausted-paragraph arm, promoted those
\* through the climbing arm.
RECURSIVE run_loop(_, _, _, _, _, _)
run_loop(game, ctx, textRes, fuel, switched, promoted) ==
    LET cur_para == current_paragraph(game, ctx)
        cur_text == current_text(game, ctx)
    IN  IF fuel = 0 THEN
            [st |-> "diverge", ctx |-> ctx, line |-> None, switched |-> switched, promoted |-> promoted]
        ELSE IF cur_para # None /\ cur_text # None THEN
            [st |-> "found", ctx |-> ctx, line |-> cur_text, switched |-> switched, promoted |-> promoted]
        ELSE IF cur_para # None THEN
            run_loop(game, next_para(cur_para, ctx, textRes), textRes, fuel - 1, switched + 1, promoted)
        ELSE IF at_top_level(ctx) THEN
            [st |-> "none", ctx |-> ctx, line |-> None, switched |-> switched, promoted |-> promoted]
        ELSE
            run_loop(game, promote(ctx), textRes, fuel - 1, switched, promoted + 1)

RECURSIVE switch_flags_unit_disabled(_, _, _)
switch_flags_unit_disabled(locals, n, i) ==
    IF i >= n THEN <<>>
    ELSE LET enabled == IF usize_to_string(i) \in DOMAIN locals
                        THEN locals[usize_to_string(i)] ELSE Unit
         IN  <<get_bool(enabled)>> \o switch_flags_unit_disabled(locals, n, i + 1)

\* Context::process_line on the fields it touches: [ok, ctx, switches, vars].
RECURSIVE switch_flags(_, _, _)
switch_flags(locals, n, i) ==
    IF i >= n THEN <<>>
    ELSE LET enabled == IF usize_to_string(i) \in DOMAIN locals
                        THEN locals[usize_to_string(i)] ELSE Unit
         IN  <<IF enabled.t = "Unit" THEN TRUE ELSE get_bool(enabled)>>
             \o switch_flags(locals, n, i + 1)

process_line_no_lookup(t, ctx, switches, vars, lineRes) ==
    CASE t.kind \in {"Empty", "Text"} ->
            [ok |-> TRUE, ctx |-> ctx, switches |-> switches, vars |-> vars]
      [] t.kind = "Switch" ->
            [ok |-> TRUE, ctx |-> ctx,
             switches |-> switch_flags(ctx.locals, Len(t.switches), 0), vars |-> vars]
      [] OTHER ->
            IF t.props = <<>> THEN
                [ok |-> TRUE, ctx |-> ctx, switches |-> switches, vars |-> EmptyMap]
            ELSE IF ~lineRes.ok THEN
                [ok |-> FALSE, ctx |-> ctx, switches |-> switches, vars |-> EmptyMap]
            ELSE
                [ok |-> TRUE,
                 ctx |-> [ctx EXCEPT !.locals = extend(ctx.locals, lineRes.locals)],
                 switches |-> switches, vars |-> extend(EmptyMap, lineRes.vars)]

process_line(t, ctx, switches, vars, lineRes) ==
    CASE t.kind \in {"Empty", "Text"} ->
            [ok |-> TRUE, ctx |-> ctx, switches |-> switches, vars |-> vars]
      [] t.kind = "Switch" ->
            [ok |-> TRUE, ctx |-> ctx,
             switches |-> switch_flags(ctx.locals, Len(t.switches), 0), vars |-> vars]
      [] OTHER ->
            IF t.props = <<>> THEN
                [ok |-> TRUE, ctx |-> ctx, switches |-> switches, vars |-> EmptyMap]
            ELSE IF t.props[1] \notin LineModules THEN
                [ok |-> FALSE, ctx |-> ctx, switches |-> switches, vars |-> EmptyMap]
            ELSE IF ~lineRes.ok THEN
                [ok |-> FALSE, ctx |-> ctx, switches |-> switches, vars |-> EmptyMap]
            ELSE
                [ok |-> TRUE,
                 ctx |-> [ctx EXCEPT !.locals = extend(ctx.locals, lineRes.locals)],
                 switches |-> switches, vars |-> extend(EmptyMap, lineRes.vars)]

finish_run_after(ctx) ==
    [ret |-> Some([ctx EXCEPT !.cur_act = ctx.cur_act + 1]),
     ctx |-> [ctx EXCEPT !.cur_act = ctx.cur_act + 1]]

finish_run_stay(ctx) == [ret |-> Some(ctx), ctx |-> ctx]

\* Lines 562-567: the snapshot returned and the cursor left pending, from the
\* cursor as process_line left it.
finish_run(ctx) == [ret |-> Some(ctx), ctx |-> [ctx EXCEPT !.cur_act = ctx.cur_act + 1]]

Context_next_run_always_steps(game, ctx, switches, vars, lineRes, textRes) ==
    LET l == run_loop(game, ctx, textRes, MaxLoop, 0, 0)
    IN  IF l.st # "found" THEN
            [st |-> l.st, ret |-> None, ctx |-> [l.ctx EXCEPT !.cur_act = l.ctx.cur_act + 1],
             switches |-> switches, vars |-> vars,
             switched |-> l.switched, promoted |-> l.promoted, line_ok |-> TRUE]
        ELSE LET p == process_line(l.line[1], l.ctx, switches, vars, lineRes)
                 f == finish_run(p.ctx)
             IN  [st |-> "found", ret |-> f.ret, ctx |-> f.ctx, switches |-> p.switches,
                  vars |-> p.vars, switched |-> l.switched, promoted |-> l.promoted,
                  line_ok |-> p.ok]

\* Context::next_run: [st, ret, ctx, switches, vars, switched, promoted, line_ok];
\* line_ok is what process_line answered, which unwrap_or_default_log! only logs.
Context_next_run(game, ctx, switches, vars, lineRes, textRes) ==
    LET l == run_loop(game, ctx, textRes, MaxLoop, 0, 0)
    IN  IF l.st # "found" THEN
            [st |-> l.st, ret |-> None, ctx |-> l.ctx, switches |-> switches, vars |-> vars,
             switched |-> l.switched, promoted |-> l.promoted, line_ok |-> TRUE]
        ELSE LET p == process_line(l.line[1], l.ctx, switches, vars, lineRes)
                 f == finish_run(p.ctx)
             IN  [st |-> "found", ret |-> f.ret, ctx |-> f.ctx, switches |-> p.switches,
                  vars |-> p.vars, switched |-> l.switched, promoted |-> l.promoted,
                  line_ok |-> p.ok]

\* Context::switch after its two assertions.
RECURSIVE remove_flags(_, _, _)
remove_flags(locals, n, i) ==
    IF i >= n THEN locals ELSE remove_flags(remove(locals, usize_to_string(i)), n, i + 1)

switch_allowed_in_range(switches, i) == i < Len(switches)

\* The two assertions of Context::switch.
switch_allowed(switches, i) == i < Len(switches) /\ switches[i + 1]

Context_switch_keep_flags(ctx, switches, i) ==
    [ctx EXCEPT !.locals = insert(ctx.locals, Q, Num(i))]

Context_switch(ctx, switches, i) ==
    [ctx EXCEPT !.locals = remove_flags(insert(ctx.locals, Q, Num(i)), Len(switches), 0)]

\* ----------------------------------------------------- Context: rendering
\* Action, with the fields of all its variants; Action::default() is Empty.
ActionEmpty ==
    [t |-> "Empty", text |-> <<>>, ch_key |-> None, character |-> None,
     vars |-> EmptyMap, switches |-> <<>>]
ActionText(text, ch_key, character, vars) ==
    [t |-> "Text", text |-> text, ch_key |-> ch_key, character |-> character,
     vars |-> vars, switches |-> <<>>]
ActionSwitches(switches) ==
    [t |-> "Switches", text |-> <<>>, ch_key |-> None, character |-> None,
     vars |-> EmptyMap, switches |-> switches]
ActionCustom(vars) ==
    [t |-> "Custom", text |-> <<>>, ch_key |-> None, character |-> None,
     vars |-> vars, switches |-> <<>>]

Switch(text, enabled) == [text |-> text, enabled |-> enabled]

\* Fallback<T>: a primary and a secondary Option.
Fallback(primary, secondary) == [primary |-> primary, secondary |-> secondary]

\* The field merges of the Text arm: the primary's fragments unless it has
\* none, the primary's character key and name when present, the union of the
\* variables with the primary's value for a shared key.
and_any_text(text, text_base) == IF text # <<>> THEN text ELSE text_base
fallback(x, x_base) == IF x # None THEN x ELSE x_base
and_any_vars(vars_, vars_base) == extend(vars_base, vars_)

merge_text_concat(action, action_base) ==
    ActionText(action.text \o action_base.text,
               fallback(action.ch_key, action_base.ch_key),
               fallback(action.character, action_base.character),
               and_any_vars(action.vars, action_base.vars))

\* The Text arm of merge_action.
merge_text(action, action_base) ==
    ActionText(and_any_text(action.text, action_base.text),
               fallback(action.ch_key, action_base.ch_key),
               fallback(action.character, action_base.character),
               and_any_vars(action.vars, action_base.vars))

merge_switches_keep_enabled(switches_, switches_base) == switches_

\* The Switches arm: iter_mut().zip(switches_base) overwrites `enabled` at the
\* indices both have.
merge_switches(switches_, switches_base) ==
    IF switches_ = <<>> THEN <<>>
    ELSE [k \in 1..Len(switches_) |->
            IF k <= Len(switches_base)
            THEN [switches_[k] EXCEPT !.enabled = switches_base[k].enabled]
            ELSE switches_[k]]

merge_custom_primary_wins(vars_, vars_base) == extend(vars_base, vars_)

\* The Custom arm: vars.extend(vars_base).
merge_custom(vars_, vars_base) == extend(vars_, vars_base)

merge_action_prefer_primary(action) ==
    IF action.primary = None /\ action.secondary = None THEN [ok |-> TRUE, action |-> ActionEmpty]
    ELSE IF action.secondary = None THEN [ok |-> TRUE, action |-> action.primary[1]]
    ELSE IF action.primary = None THEN [ok |-> TRUE, action |-> action.secondary[1]]
    ELSE LET a == action.primary[1]
             b == action.secondary[1]
         IN  CASE a.t = "Text" /\ b.t = "Text" -> [ok |-> TRUE, action |-> merge_text(a, b)]
               [] a.t = "Switches" /\ b.t = "Switches" ->
                     [ok |-> TRUE, action |-> ActionSwitches(merge_switches(a.switches, b.switches))]
               [] a.t = "Custom" /\ b.t = "Custom" ->
                     [ok |-> TRUE, action |-> ActionCustom(merge_custom(a.vars, b.vars))]
               [] OTHER -> [ok |-> TRUE, action |-> a]

\* Context::merge_action: [ok, action]; ok = FALSE is "Mismatching action type".
merge_action(action) ==
    IF action.primary = None /\ action.secondary = None THEN [ok |-> TRUE, action |-> ActionEmpty]
    ELSE IF action.secondary = None THEN [ok |-> TRUE, action |-> action.primary[1]]
    ELSE IF action.primary = None THEN [ok |-> TRUE, action |-> action.secondary[1]]
    ELSE LET a == action.primary[1]
             b == action.secondary[1]
         IN  CASE a.t = "Text" /\ b.t = "Text" -> [ok |-> TRUE, action |-> merge_text(a, b)]
               [] a.t = "Switches" /\ b.t = "Switches" ->
                     [ok |-> TRUE, action |-> ActionSwitches(merge_switches(a.switches, b.switches))]
               [] a.t = "Custom" /\ b.t = "Custom" ->
                     [ok |-> TRUE, action |-> ActionCustom(merge_custom(a.vars, b.vars))]
               [] OTHER -> [ok |-> FALSE, action |-> ActionEmpty]

\* Context::parse_text for a line without character tag: [ok, action].
parse_text(t, ctx, textRes) ==
    LET r == parse_sub_text(t.sub_texts, ctx.locals, textRes)
    IN  IF r.ok THEN [ok |-> TRUE, action |-> ActionText(r.strs, t.ch_tag, t.ch_alias, EmptyMap)]
        ELSE [ok |-> FALSE, action |-> ActionEmpty]

\* Context::parse_switches: the labels zipped with the flags of the pending switch.
parse_switches(s, switches) ==
    IF s = <<>> \/ switches = <<>> THEN <<>>
    ELSE [k \in 1..(IF Len(s) <= Len(switches) THEN Len(s) ELSE Len(switches)) |->
            Switch(s[k], switches[k])]

\* The two loops that close Context::process_action_text (no action plugin
\* is installed): blank fragments are dropped from both ends.
RECURSIVE pop_back_blank(_)
pop_back_blank(text) ==
    IF text # <<>> /\ trim(text[Len(text)]) = <<>>
    THEN pop_back_blank(SubSeq(text, 1, Len(text) - 1)) ELSE text

RECURSIVE pop_front_blank(_)
pop_front_blank(text) ==
    IF text # <<>> /\ trim(Head(text)) = <<>> THEN pop_front_blank(Tail(text)) ELSE text

process_action_text(action) ==
    [action EXCEPT !.text = pop_front_blank(pop_back_blank(action.text))]

\* Game::find_para_fallback: the paragraph of the requested locale, and that
\* of the base locale.
find_para_fallback(game, loc, base_tag, tag) ==
    Fallback(find_para(game, loc, base_tag, tag), find_para(game, BaseLang, base_tag, tag))

\* The closure of Context::get_action that turns a line into an Action.
line_action(line, ctx, switches, vars, textRes) ==
    IF line = None THEN None
    ELSE CASE line[1].kind = "Text" ->
                 LET r == parse_text(line[1], ctx, textRes) IN IF r.ok THEN Some(r.action) ELSE None
           [] line[1].kind = "Switch" -> Some(ActionSwitches(parse_switches(line[1].switches, switches)))
           [] line[1].kind = "Custom" -> Some(ActionCustom(vars))
           [] OTHER -> None

\* The Fallback<Action> Context::get_action hands to merge_action.
cur_action(game, loc, ctx, switches, vars, textRes) ==
    LET p == find_para_fallback(game, loc, ctx.cur_base_para, ctx.cur_para)
        cur_text == Fallback(IF p.primary = None THEN None ELSE get(p.primary[1].texts, ctx.cur_act),
                             IF p.secondary = None THEN None ELSE get(p.secondary[1].texts, ctx.cur_act))
    IN  Fallback(line_action(cur_text.primary, ctx, switches, vars, textRes),
                 line_action(cur_text.secondary, ctx, switches, vars, textRes))

\* Context::get_action: [ok, action].
get_action(game, loc, ctx, switches, vars, textRes) ==
    LET act == merge_action(cur_action(game, loc, ctx, switches, vars, textRes))
    IN  IF ~act.ok THEN act
        ELSE IF act.action.t = "Text" THEN [ok |-> TRUE, action |-> process_action_text(act.action)]
        ELSE act

\* unwrap_or_default_log!(self.context().get_action(..), "Cannot get action")
get_action_or_default(game, loc, ctx, switches, vars, textRes) ==
    LET r == get_action(game, loc, ctx, switches, vars, textRes)
    IN  IF r.ok THEN r.action ELSE ActionEmpty

\* ----------------------------------------------------------- GameViewModel
VARIABLES
    game,       \* the story the Context was opened with
    ctx,        \* Context.ctx, the pending cursor
    switches,   \* Context.switches, the flags of the pending switch
    vars,       \* Context.vars
    history,    \* current_record.history
    cur,        \* current_raw_context (None or Some)
    records,    \* the records open_game loaded, each a history
    settings,   \* GameViewModel.settings (None or Some)
    global_record, \* GameViewModel.global_record (None or Some)
    opened,     \* GameViewModel.context is Some
    status,     \* the OpenGameStatus values open_game has reported so far
    rendered,   \* what the last current_actions returned (None or Some)
    merge_in,   \* the Fallback<Action> last handed to merge_action
    merge_out,  \* what merge_action answered (None: not called)
    updated,    \* the cursor the operation passed to GlobalRecord::update (None: no call)
    panicked,   \* an assertion or expect has failed
    hung,       \* Context::next_run did not return
    op,         \* the operation that produced this state
    steps,      \* next_run calls since init_new with no other operation in between
                \* (-1: not in such a sequence, or more than MaxSteps of them)
    ended,      \* the last next_run returned false, and no next_back_run, init_new
                \* or init_context was called since
    arg,        \* its argument: the index given to switch, the record chosen for
                \* init_context, 0 for the operations without one
    ret,        \* what it returned (TRUE for the operations that return nothing)
    run,        \* what the last Context::next_run did: [st, switched, promoted, line_ok]
    snap        \* history and current run as they were before a successful next_back_run,
                \* kept through the next_run that directly follows it

vars_all == <<game, ctx, switches, vars, history, cur, records, settings, global_record,
              opened, status, rendered, merge_in, merge_out, updated,
              panicked, hung, op, steps, ended, arg, ret, run, snap>>

open_vars == <<settings, global_record, opened, status>>

NoFallback == Fallback(None, None)

NoRun == [st |-> "", switched |-> 0, promoted |-> 0, line_ok |-> TRUE]
NoSnap == [history |-> <<>>, cur |-> None]

\* ActionRecord::last_ctx_with_game
last_ctx_with_game(record, game_) ==
    IF record = <<>> THEN start_context(game_) ELSE record[Len(record)]

is_text_inverted(game_, c) ==
    LET p == find_para(game_, BaseLang, c.cur_base_para, c.cur_para)
        cur_text == IF p = None THEN None ELSE get(p[1].texts, c.cur_act)
    IN  IF cur_text = None THEN FALSE ELSE cur_text[1].kind # "Text"

is_text_any_line(game_, c) ==
    LET p == find_para(game_, BaseLang, c.cur_base_para, c.cur_para)
        cur_text == IF p = None THEN None ELSE get(p[1].texts, c.cur_act)
    IN  cur_text # None

\* The test of push_history: is the line the cursor addresses a Text line of
\* the base locale?
is_text(game_, c) ==
    LET p == find_para(game_, BaseLang, c.cur_base_para, c.cur_para)
        cur_text == IF p = None THEN None ELSE get(p[1].texts, c.cur_act)
    IN  IF cur_text = None THEN FALSE ELSE cur_text[1].kind = "Text"

push_history_replace(game_, h, c) ==
    IF is_text(game_, c) THEN Append(SubSeq(h, 1, Len(h) - 1), c) ELSE h

push_history(game_, h, c) == IF is_text(game_, c) THEN Append(h, c) ELSE h

record_run_text_only(game_, h, r) ==
    IF r = None THEN [history |-> h, updated |-> None]
    ELSE [history |-> push_history(game_, h, r[1]),
          updated |-> IF is_text(game_, r[1]) THEN Some(r[1]) ELSE None]

\* The `if let Some(ctx)` block of next_run: the history it leaves and the
\* cursor it hands to GlobalRecord::update.
record_run(game_, h, r) ==
    IF r = None THEN [history |-> h, updated |-> None]
    ELSE [history |-> push_history(game_, h, r[1]), updated |-> Some(r[1])]

history_too_short_strict(h) == Len(h) < 1

\* The guard of next_back_run.
history_too_short(h) == Len(h) <= 1

pop_two(h) == SubSeq(h, 1, Len(h) - 2)

\* Vec::pop
pop(h) == SubSeq(h, 1, Len(h) - 1)

last_first(h) == IF h = <<>> THEN None ELSE Some(h[1])

\* Vec::last
last(h) == IF h = <<>> THEN None ELSE Some(h[Len(h)])

back_target_popped(h) == last(h)

\* The run next_back_run makes current: the last entry once the current one
\* is popped.
back_target(h) == last(pop(h))

next_of_two(c) == [c EXCEPT !.cur_act = c.cur_act + 2]

next_of_same(c) == c

\* The cursor next_back_run and init_context install: the entry, one act further.
next_of(c) == [c EXCEPT !.cur_act = c.cur_act + 1]

\* The records of earlier sessions: histories a play-through of the story produces.
LoadedRecords(g) ==
    CASE g = "branch" ->
            << <<RawContext(<<"a">>, <<"a">>, 0, EmptyMap)>>,
               <<RawContext(<<"a">>, <<"a">>, 0, EmptyMap),
                 RawContext(<<"a">>, <<"a">>, 3, Q :> Num(1))>> >>
      [] g = "loop" ->
            << <<RawContext(<<"p">>, <<"p">>, 0, EmptyMap),
                 RawContext(<<"p">>, <<"p">>, 1, EmptyMap),
                 RawContext(<<"p">>, <<"p">>, 0, EmptyMap)>> >>
      [] g = "chain" ->
            << <<RawContext(<<"e">>, <<"e">>, 0, EmptyMap),
                 RawContext(<<"e">>, <<"c">>, 0, EmptyMap)>> >>
      [] g = "cycle" ->
            << <<RawContext(<<"q">>, <<"q">>, 0, EmptyMap)>> >>
      [] g = "climb" ->
            \* the second one was saved right after init_new
            << <<RawContext(<<"s">>, <<"s">>, 0, EmptyMap)>>, <<>> >>
      [] OTHER ->
            << <<RawContext(<<"p", "1">>, <<"p", "1">>, 0, EmptyMap),
                 RawContext(<<"p", "1">>, <<"p", "1">>, 1, EmptyMap),
                 RawContext(<<"p", "1">>, <<"p", "2">>, 0, EmptyMap)>> >>

Live == ~panicked /\ ~hung

\* Settings: the primary locale and the optional secondary one.
Settings(lang, sub_lang) == [lang |-> lang, sub_lang |-> sub_lang]
SettingsDefault == Settings(BaseLang, None)

\* What the settings manager can answer to load_settings, load_global_record
\* and load_records: a failure, or what it stored.
LoadErr == [ok |-> FALSE]
SettingsResults == {LoadErr, [ok |-> TRUE, v |-> Settings("ja", Some(BaseLang))]}
\* The ledger of a GlobalRecord is followed through `updated` only: the stored
\* record and the default one are both the record without content.
GlobalRecordDefault == [record |-> EmptyMap]
GlobalRecordResults == {LoadErr, [ok |-> TRUE, v |-> GlobalRecordDefault]}
RecordsResults(g) == {LoadErr, [ok |-> TRUE, v |-> LoadedRecords(g)]}

\* unwrap_or_default_log!
unwrap_or_default(res, default) == IF res.ok THEN res.v ELSE default

\* GameViewModel::new, and the Context that open_game will be given.
Init ==
    /\ game \in GameNames
    /\ ctx = RawContextDefault
    /\ switches = <<>>
    /\ vars = EmptyMap
    /\ history = <<>>
    /\ cur = None
    /\ records = <<>>
    /\ settings = None
    /\ global_record = None
    /\ opened = FALSE
    /\ status = <<>>
    /\ rendered = None
    /\ merge_in = NoFallback
    /\ merge_out = None
    /\ updated = None
    /\ panicked = FALSE
    /\ hung = FALSE
    /\ op = "new"
    /\ steps = -1
    /\ ended = FALSE
    /\ arg = 0
    /\ ret = TRUE
    /\ run = NoRun
    /\ snap = NoSnap

\* What every operation but current_actions leaves of the last rendering.
NoRender == rendered' = None /\ merge_in' = NoFallback /\ merge_out' = None

\* The part of the operations of open_game that is the same for all four.
OpenStep ==
    /\ Live
    /\ ~opened
    /\ op' = "open_game"
    /\ steps' = -1
    /\ ended' = FALSE
    /\ arg' = 0
    /\ run' = NoRun
    /\ snap' = NoSnap
    /\ updated' = None
    /\ NoRender
    /\ UNCHANGED <<game, ctx, switches, vars, history, cur, panicked, hung>>

\* open_game up to its first yield.
open_game_LoadSettings ==
    /\ OpenStep
    /\ status = <<>>
    /\ status' = <<"LoadSettings">>
    /\ ret' = TRUE
    /\ UNCHANGED <<settings, global_record, opened, records>>

open_game_LoadGlobalRecords_unloaded ==
    /\ OpenStep
    /\ status = <<"LoadSettings">>
    /\ status' = Append(status, "LoadGlobalRecords")
    /\ ret' = TRUE
    /\ UNCHANGED <<settings, global_record, opened, records>>

\* From the first yield to the second: the settings are loaded and installed.
open_game_LoadGlobalRecords ==
    /\ OpenStep
    /\ status = <<"LoadSettings">>
    /\ \E res \in SettingsResults :
          /\ settings' = Some(unwrap_or_default(res, SettingsDefault))
          /\ ret' = res.ok
    /\ status' = Append(status, "LoadGlobalRecords")
    /\ UNCHANGED <<global_record, opened, records>>

\* From the second yield to the third: the global record.
open_game_LoadRecords ==
    /\ OpenStep
    /\ status = <<"LoadSettings", "LoadGlobalRecords">>
    /\ \E res \in GlobalRecordResults :
          /\ global_record' = Some(unwrap_or_default(res, GlobalRecordDefault))
          /\ ret' = res.ok
    /\ status' = Append(status, "LoadRecords")
    /\ UNCHANGED <<settings, opened, records>>

\* From the third yield to the last: the records, then the context.
open_game_Loaded ==
    /\ OpenStep
    /\ status = <<"LoadSettings", "LoadGlobalRecords", "LoadRecords">>
    /\ \E res \in RecordsResults(game) :
          /\ records' = unwrap_or_default(res, <<>>)
          /\ ret' = res.ok
    /\ opened' = TRUE
    /\ status' = Append(status, "Loaded")
    /\ UNCHANGED <<settings, global_record>>

\* init_new, init_context, next_run or switch without a context: the expect
\* of context() fails.
use_before_open ==
    /\ Live
    /\ ~opened
    /\ panicked' = TRUE
    /\ op' = "context"
    /\ steps' = -1
    /\ ended' = FALSE
    /\ arg' = 0
    /\ ret' = TRUE
    /\ run' = NoRun
    /\ snap' = NoSnap
    /\ updated' = None
    /\ NoRender
    /\ UNCHANGED <<game, ctx, switches, vars, history, cur, records, hung>>
    /\ UNCHANGED open_vars

init_new ==
    /\ Live
    /\ opened
    /\ NoRender
    /\ UNCHANGED open_vars
    /\ history' = <<>>
    /\ cur' = None
    /\ ctx' = start_context(GameOf(game))
    /\ op' = "init_new"
    /\ steps' = 0
    /\ ended' = FALSE
    /\ arg' = 0
    /\ ret' = TRUE
    /\ run' = NoRun
    /\ snap' = NoSnap
    /\ UNCHANGED <<game, switches, vars, records, panicked, hung>>
    /\ updated' = None

init_context ==
    /\ Live
    /\ opened
    /\ NoRender
    /\ UNCHANGED open_vars
    /\ \E index \in 1..Len(records) :
          /\ history' = records[index]
          /\ cur' = last(records[index])
          /\ ctx' = next_of(last_ctx_with_game(records[index], GameOf(game)))
          /\ arg' = index
    /\ op' = "init_context"
    /\ steps' = -1
    /\ ended' = FALSE
    /\ ret' = TRUE
    /\ run' = NoRun
    /\ snap' = NoSnap
    /\ UNCHANGED <<game, switches, vars, records, panicked, hung>>
    /\ updated' = None

next_run ==
    /\ Live
    /\ opened
    /\ NoRender
    /\ UNCHANGED open_vars
    /\ Len(history) < MaxHistory
    /\ \E lineRes \in LineResults, textRes \in TextResults :
          LET r == Context_next_run(GameOf(game), ctx, switches, vars, lineRes, textRes)
          IN  IF r.st = "diverge" THEN
                  /\ hung' = TRUE
                  /\ updated' = None
                  /\ UNCHANGED <<ctx, switches, vars, history, cur, ret>>
                  /\ run' = [st |-> r.st, switched |-> r.switched, promoted |-> r.promoted,
                             line_ok |-> r.line_ok]
              ELSE
                  /\ ctx' = r.ctx
                  /\ switches' = r.switches
                  /\ vars' = r.vars
                  /\ history' = record_run(GameOf(game), history, r.ret).history
                  /\ updated' = record_run(GameOf(game), history, r.ret).updated
                  /\ cur' = r.ret
                  /\ ret' = (r.ret # None)
                  /\ run' = [st |-> r.st, switched |-> r.switched, promoted |-> r.promoted,
                             line_ok |-> r.line_ok]
                  /\ UNCHANGED hung
    /\ op' = "next_run"
    /\ steps' = IF steps \in 0..(MaxSteps - 1) THEN steps + 1 ELSE -1
    /\ ended' = (~hung' /\ ~ret')
    /\ arg' = 0
    /\ snap' = IF op = "next_back_run" THEN snap ELSE NoSnap
    /\ UNCHANGED <<game, records, panicked>>

next_back_run ==
    /\ Live
    /\ NoRender
    /\ UNCHANGED open_vars
    /\ IF history_too_short(history) THEN
           /\ ret' = FALSE
           /\ snap' = NoSnap
           /\ UNCHANGED <<ctx, history, cur, panicked>>
       ELSE
           /\ history' = pop(history)
           /\ cur' = back_target(history)
           /\ IF back_target(history) = None
              THEN panicked' = TRUE /\ UNCHANGED ctx
              ELSE ctx' = next_of(back_target(history)[1]) /\ UNCHANGED panicked
           /\ ret' = TRUE
           /\ snap' = [history |-> history, cur |-> cur]
    /\ op' = "next_back_run"
    /\ steps' = -1
    /\ ended' = FALSE
    /\ arg' = 0
    /\ run' = NoRun
    /\ UNCHANGED <<game, switches, vars, records, hung>>
    /\ updated' = None

switch ==
    /\ Live
    /\ opened
    /\ NoRender
    /\ UNCHANGED open_vars
    /\ \E i \in 0..MaxSwitchArg :
          /\ arg' = i
          /\ IF switch_allowed(switches, i)
             THEN ctx' = Context_switch(ctx, switches, i) /\ UNCHANGED panicked
             ELSE panicked' = TRUE /\ UNCHANGED ctx
    /\ op' = "switch"
    /\ steps' = -1
    /\ UNCHANGED ended
    /\ ret' = TRUE
    /\ snap' = NoSnap
    /\ UNCHANGED <<game, switches, vars, history, cur, records, hung, run>>
    /\ updated' = None

\* current_actions: the current run rendered in the primary locale and, when
\* there is one, in the secondary locale.
current_actions ==
    /\ Live
    /\ \E textRes \in TextResults :
          IF cur = None THEN
              /\ rendered' = None
              /\ merge_in' = NoFallback
              /\ merge_out' = None
          ELSE
              /\ rendered' = Some(
                    [action |-> get_action_or_default(GameOf(game), settings[1].lang, cur[1],
                                                      switches, vars, textRes),
                     base_action |->
                        IF settings[1].sub_lang = None THEN None
                        ELSE Some(get_action_or_default(GameOf(game), settings[1].sub_lang[1],
                                                        cur[1], switches, vars, textRes))])
              /\ merge_in' = cur_action(GameOf(game), settings[1].lang, cur[1],
                                        switches, vars, textRes)
              /\ merge_out' = Some(merge_action(merge_in'))
    /\ op' = "current_actions"
    /\ steps' = -1
    /\ UNCHANGED ended
    /\ arg' = 0
    /\ ret' = TRUE
    /\ run' = NoRun
    /\ snap' = NoSnap
    /\ updated' = None
    /\ UNCHANGED <<game, ctx, switches, vars, history, cur, records, panicked, hung>>
    /\ UNCHANGED open_vars

Next ==
    \/ open_game_LoadSettings
    \/ open_game_LoadGlobalRecords
    \/ open_game_LoadRecords
    \/ open_game_Loaded
    \/ use_before_open
    \/ current_actions
    \/ init_new
    \/ init_context
    \/ next_run
    \/ next_back_run
    \/ switch

Spec == Init /\ [][Next]_vars_all

\* ------------------------------------------------- merge_action on its own
\* The Actions merge_action is given: texts with and without fragments,
\* character key, character name and variables; switches of up to MaxOptions
\* options; custom variable maps over two keys.
TextActions ==
    {ActionText(text, ch_key, character, vars_) :
        text \in {<<>>, <<<<"a">>>>, <<<<"b">>>>},
        ch_key \in {None, Some(<<"c">>)},
        character \in {None, Some(<<"n">>)},
        vars_ \in {EmptyMap, <<"k">> :> Num(1)}}

SwitchesActions ==
    {ActionSwitches(s) :
        s \in UNION {[1..n -> {Switch(text, enabled) : text \in {<<"A">>, <<"B">>},
                                                        enabled \in BOOLEAN}] :
                        n \in 0..MaxOptions}}

CustomActions ==
    {ActionCustom(vars_) :
        vars_ \in UNION {[D -> {Num(1), Num(2)}] : D \in SUBSET {<<"k">>, <<"m">>}}}

OptionalActions ==
    {None} \cup {Some(a) : a \in TextActions \cup SwitchesActions \cup CustomActions}

\* A session not opened, and a Fallback<Action> for merge_action.
MergeInit ==
    /\ game = "two"
    /\ ctx = RawContextDefault
    /\ switches = <<>>
    /\ vars = EmptyMap
    /\ history = <<>>
    /\ cur = None
    /\ records = <<>>
    /\ settings = None
    /\ global_record = None
    /\ opened = FALSE
    /\ status = <<>>
    /\ rendered = None
    /\ merge_in \in {Fallback(a, b) : a \in OptionalActions, b \in OptionalActions}
    /\ merge_out = None
    /\ updated = None
    /\ panicked = FALSE
    /\ hung = FALSE
    /\ op = "new"
    /\ steps = -1
    /\ ended = FALSE
    /\ arg = 0
    /\ ret = TRUE
    /\ run = NoRun
    /\ snap = NoSnap

\* Context::merge_action applied to the pair.
merge_action_call ==
    /\ merge_out = None
    /\ merge_out' = Some(merge_action(merge_in))
    /\ op' = "merge_action"
    /\ UNCHANGED <<game, ctx, switches, vars, history, cur, records, settings, global_record,
                   opened, status, rendered, merge_in, updated, panicked, hung, steps, ended,
                   arg, ret, run, snap>>

MergeNext == merge_action_call

MergeSpec == MergeInit /\ [][MergeNext]_vars_all

\* ================================================================= claims
\* The kind of the base-locale line a cursor addresses, read off the story
\* tables directly ("" when the paragraph or the line does not exist).
KindAt(c) ==
    LET G == GameOf(game).paras[BaseLang]
    IN  IF c.cur_base_para \notin DOMAIN G THEN ""
        ELSE LET ps == G[c.cur_base_para]
                 ks == {k \in DOMAIN ps : ps[k].tag = c.cur_para}
             IN  IF ks = {} THEN ""
                 ELSE LET p == ps[CHOOSE k \in ks : \A j \in ks : k <= j]
                      IN  IF c.cur_act + 1 \in DOMAIN p.texts
                          THEN p.texts[c.cur_act + 1].kind ELSE ""

\* The paragraph a cursor addresses, read off the story tables directly.
ParaAt(c) ==
    LET G == GameOf(game).paras[BaseLang]
    IN  IF c.cur_base_para \notin DOMAIN G THEN None
        ELSE LET ps == G[c.cur_base_para]
                 ks == {k \in DOMAIN ps : ps[k].tag = c.cur_para}
             IN  IF ks = {} THEN None
                 ELSE Some(ps[CHOOSE k \in ks : \A j \in ks : k <= j])

\* The advance has nothing more to look for at c: a line is there, or the
\* paragraph is missing from its own file.
Settled(c) ==
    IF ParaAt(c) = None THEN c.cur_base_para = c.cur_para
    ELSE c.cur_act + 1 \in DOMAIN ParaAt(c)[1].texts

\* One transition of the search from an unsettled cursor.
Hop(c, textRes) ==
    IF ParaAt(c) = None THEN [c EXCEPT !.cur_base_para = c.cur_para]
    ELSE [c EXCEPT !.cur_para = IF ParaAt(c)[1].next = None THEN <<>>
                                ELSE call_or_default(ParaAt(c)[1].next[1], c.locals, textRes),
                   !.cur_act = 0]

\* The cursors the search visits from c, at most k transitions of them.
RECURSIVE Hops(_, _, _)
Hops(c, textRes, k) ==
    IF k = 0 \/ Settled(c) THEN <<c>> ELSE <<c>> \o Hops(Hop(c, textRes), textRes, k - 1)

SameParagraph(a, b) == a.cur_base_para = b.cur_base_para /\ a.cur_para = b.cur_para

PlayOps == {"next_run", "next_back_run", "switch"}

\* Every entry of a loaded record addresses a Text line, as the entries that
\* play records do.
RecordsArePlayable ==
    \A i \in DOMAIN records : \A k \in DOMAIN records[i] : KindAt(records[i][k]) = "Text"

\* C1: over next_run, next_back_run and switch, a history of length >= 1
\* never drops below length 1.
C1_HistoryStaysNonEmpty ==
    [][(Len(history) >= 1 /\ op' \in PlayOps) => Len(history') >= 1]_vars_all

C1_Witness == op = "next_back_run" /\ ret /\ Len(history) = 1 /\ ~panicked

\* C2: next_back_run on a history of length <= 1 returns false and leaves the
\* history, the current run and the pending cursor unchanged.
C2_BackOnShortHistoryIsNoOp ==
    [][(op' = "next_back_run" /\ Len(history) <= 1)
        => (ret' = FALSE /\ history' = history /\ cur' = cur /\ ctx' = ctx /\ ~panicked')]_vars_all

C2_Witness == op = "next_back_run" /\ ~ret /\ Len(history) = 1 /\ cur # None

\* C3: next_back_run on a history of n >= 2 entries returns true, removes
\* exactly the last entry, makes the new last entry the current run, and
\* installs as pending cursor a copy of it with act_index one greater.
C3_BackPopsAndReinstalls ==
    [][(op' = "next_back_run" /\ Len(history) >= 2)
        => LET n == Len(history)
               e == history[n - 1]
           IN  /\ ret' = TRUE
               /\ history' = SubSeq(history, 1, n - 1)
               /\ cur' = Some(e)
               /\ ctx' = RawContext(e.cur_base_para, e.cur_para, e.cur_act + 1, e.locals)]_vars_all

C3_Witness ==
    op = "next_back_run" /\ ret /\ Len(history) >= 2 /\ ctx.locals # EmptyMap

\* The last two entries of h follow each other with no unit in between: the
\* next act of the same paragraph, or act 0 reached from the end of a paragraph
\* by transitions no text plugin has a say in.
LastTwoAdjacent(h) ==
    LET a == h[Len(h) - 1]
        b == h[Len(h)]
        n == [a EXCEPT !.cur_act = a.cur_act + 1]
    IN  \/ SameParagraph(a, b) /\ b.cur_act = a.cur_act + 1
        \/ /\ KindAt(n) = "" /\ b.cur_act = 0
           /\ \A t1, t2 \in TextResults : Hops(n, t1, MaxLoop) = Hops(n, t2, MaxLoop)

\* A next_run has just followed a successful next_back_run.
RoundTripDone == op = "next_run" /\ snap # NoSnap

\* C4 as stated: when only Text lines lie between the last two history
\* entries, next_back_run then next_run restores the history and the current run.
C4_RoundTripAsStated ==
    (RoundTripDone /\ LastTwoAdjacent(snap.history))
        => (history = snap.history /\ cur = snap.cur)

\* C4 amended: the round trip restores the history and the current run when,
\* in addition, the current run before the back-navigation was the last
\* history entry and the last two entries carry the same locals (no switch
\* call between them).
C4_RoundTripFromTextPosition ==
    (/\ RoundTripDone
     /\ LastTwoAdjacent(snap.history)
     /\ snap.cur = last(snap.history)
     /\ snap.history[Len(snap.history)].locals = snap.history[Len(snap.history) - 1].locals)
        => (history = snap.history /\ cur = snap.cur /\ ret)

C4_Witness ==
    /\ RoundTripDone /\ LastTwoAdjacent(snap.history) /\ snap.cur = last(snap.history)
    /\ snap.history[Len(snap.history)].locals = snap.history[Len(snap.history) - 1].locals
    /\ ~SameParagraph(history[Len(history) - 1], history[Len(history)])
    /\ history[Len(history)].locals # EmptyMap

\* C5: a cursor next_run appends to the history addresses a Text line of the
\* base locale; a step that lands on a Switch, Custom or Empty line leaves the
\* history unchanged.
C5_OnlyTextIsRecorded ==
    [][(op' = "next_run")
        => /\ (history' # history
                => cur' # None /\ history' = Append(history, cur'[1]) /\ KindAt(cur'[1]) = "Text")
           /\ ((cur' # None /\ KindAt(cur'[1]) \in {"Switch", "Custom", "Empty"})
                => history' = history)]_vars_all

C5_Witness == op = "next_run" /\ cur # None /\ KindAt(cur[1]) = "Switch" /\ Len(history) = 1

\* C6: next_run leaves the history unchanged or appends one entry at its end,
\* switch leaves it unchanged, and of the play operations only next_back_run
\* removes an entry.
C6_AppendOnlyForward ==
    [][/\ (op' = "next_run"
            => \/ history' = history
               \/ Len(history') = Len(history) + 1 /\ SubSeq(history', 1, Len(history)) = history)
       /\ (op' = "switch" => history' = history)
       /\ ((op' \in PlayOps /\ Len(history') < Len(history)) => op' = "next_back_run")]_vars_all

C6_Witness == op = "next_run" /\ ret /\ Len(history) = 3 /\ cur = last(history)

\* C7: a next_run that produces a cursor hands exactly that cursor to the
\* visited ledger, whatever the kind of its line; one that produces none makes
\* no update.
C7_LedgerUpdatedForEveryCursor ==
    [][(op' = "next_run" /\ ~hung')
        => /\ updated' = cur'
           /\ (ret' => updated' # None /\ SameParagraph(updated'[1], ctx')
                       /\ updated'[1].cur_act + 1 = ctx'.cur_act)
           /\ (~ret' => updated' = None)]_vars_all

C7_Witness == op = "next_run" /\ updated # None /\ KindAt(updated[1]) = "Custom"

\* C8 as stated: once the history is non-empty its last entry is the current
\* run and the pending act_index is that entry's act_index + 1.
C8_LastIsCurrentAsStated ==
    (history # <<>> /\ ~panicked)
        => (cur = last(history) /\ ctx.cur_act = history[Len(history)].cur_act + 1)

\* C8 amended: whenever the current run addresses a Text line, the history is
\* non-empty, its last entry is the current run, and the pending cursor is in
\* the same paragraph with act_index one greater than that entry's.
C8_LastIsCurrentOnText ==
    (cur # None /\ KindAt(cur[1]) = "Text" /\ ~panicked)
        => /\ history # <<>>
           /\ cur = last(history)
           /\ SameParagraph(ctx, history[Len(history)])
           /\ ctx.cur_act = history[Len(history)].cur_act + 1

C8_Witness ==
    /\ op = "switch" /\ cur # None /\ KindAt(cur[1]) = "Text" /\ Len(history) = 2
    /\ ctx.locals # cur[1].locals

\* C9: a successful advance returns the cursor at the act_index of the line it
\* found, as the processing of that line left it, and leaves the pending cursor
\* in the same paragraph with act_index exactly one greater.
C9_SnapshotBeforeIncrement ==
    [][(op' = "next_run" /\ cur' # None)
        => /\ KindAt(cur'[1]) # ""
           /\ SameParagraph(ctx', cur'[1])
           /\ ctx'.cur_act = cur'[1].cur_act + 1
           /\ ctx'.locals = cur'[1].locals
           /\ cur'[1].cur_act = (IF run'.switched = 0 THEN ctx.cur_act ELSE 0)]_vars_all

C9_Witness ==
    /\ op = "next_run" /\ cur # None /\ KindAt(cur[1]) = "Custom"
    /\ <<"0">> \in DOMAIN cur[1].locals /\ ctx.cur_act = 2

\* C10 as stated: of two consecutively returned cursors with the same
\* paragraph ids the later has the strictly greater act_index.
C10_StrictWithinParagraphAsStated ==
    [][(run.st = "found" /\ cur # None /\ op' = "next_run" /\ cur' # None
        /\ SameParagraph(cur[1], cur'[1]))
        => cur'[1].cur_act > cur[1].cur_act]_vars_all

\* C10 amended: an advance that passes no exhausted paragraph returns a cursor
\* of the same paragraph with a strictly greater act_index; act_index is 0
\* after, and not greater only after, an advance that followed a next_expr,
\* also when the next_expr names the same paragraph again.
C10_StrictUnlessNextExpr ==
    [][(run.st = "found" /\ cur # None /\ op' = "next_run" /\ cur' # None)
        => /\ (run'.switched = 0
                => SameParagraph(cur[1], cur'[1]) /\ cur'[1].cur_act > cur[1].cur_act)
           /\ (run'.switched > 0 => cur'[1].cur_act = 0)
           /\ (cur'[1].cur_act <= cur[1].cur_act => run'.switched > 0)]_vars_all

C10_Witness ==
    /\ op = "next_run" /\ cur # None /\ run.st = "found" /\ run.switched = 1
    /\ game = "loop" /\ Len(history) = 3

\* ------------------------------------------------------------------- C11
\* The transitions from c come back to a cursor already visited.
HopsCycle(c, textRes) ==
    LET h == Hops(c, textRes, MaxLoop)
    IN  \E i, j \in DOMAIN h : i < j /\ h[i] = h[j]

\* C11: an advance fails to return only if the transitions between paragraphs
\* without a line at the cursor form a cycle; otherwise it terminates, with a
\* line or with the end of the story.
C11_AdvanceTerminatesWithoutCycle ==
    [][(op' = "next_run" /\ ~(\E textRes \in TextResults : HopsCycle(ctx, textRes)))
         => (~hung' /\ run'.st \in {"found", "none"})]_vars_all

\* An advance that crossed two paragraphs without lines and returned a line.
C11_Witness ==
    /\ op = "next_run" /\ ~hung /\ run.st = "found" /\ run.switched = 3 /\ game = "chain"

\* ------------------------------------------------------------- C12, C13
\* The local keys of the options of a switch with n options.
FlagKeys(n) ==
    (IF n >= 1 THEN {<<"0">>} ELSE {}) \cup (IF n >= 2 THEN {<<"1">>} ELSE {})
    \cup (IF n >= 3 THEN {<<"2">>} ELSE {}) \cup (IF n >= 4 THEN {<<"3">>} ELSE {})

\* The locals a choice of option i among n leaves.
LocalsAfterChoice(locals, n, i) ==
    [k \in ((DOMAIN locals) \cup {Q}) \ FlagKeys(n) |-> IF k = Q THEN Num(i) ELSE locals[k]]

ChoiceIsValid == arg' \in 0..(Len(switches) - 1) /\ switches[arg' + 1]

\* C12: switch(i) with i in range and enabled sets locals["?"] to i, removes
\* the keys "0" .. "n-1", and leaves every other local, the paragraph ids,
\* act_index and the history unchanged.
C12_SwitchRecordsChoice ==
    [][(op' = "switch" /\ ChoiceIsValid)
         => /\ ~panicked'
            /\ ctx'.locals = LocalsAfterChoice(ctx.locals, Len(switches), arg')
            /\ ctx'.cur_base_para = ctx.cur_base_para
            /\ ctx'.cur_para = ctx.cur_para
            /\ ctx'.cur_act = ctx.cur_act
            /\ history' = history]_vars_all

\* The second option chosen where the first was disabled by the local "0":
\* "0" is gone, the choice is recorded, the local "m" is still there.
C12_Witness ==
    /\ op = "switch" /\ ~panicked /\ arg = 1 /\ switches = <<FALSE, TRUE>>
    /\ ctx.locals = (Q :> Num(1)) @@ (<<"m">> :> Num(7))

\* C13: switch(i) with i out of range or disabled fails at once and changes
\* neither the locals nor any other session state.
C13_InvalidSwitchRejected ==
    [][(op' = "switch" /\ ~ChoiceIsValid)
         => /\ panicked'
            /\ UNCHANGED <<ctx, switches, vars, history, cur, records>>]_vars_all

\* The disabled first option was chosen.
C13_Witness ==
    /\ op = "switch" /\ panicked /\ arg = 0 /\ switches = <<FALSE, TRUE>>

\* ------------------------------------------------------------------- C14
\* The leading command of the Custom line a cursor addresses, read off the
\* story tables (<<>> when there is none).
CmdAt(c) ==
    IF KindAt(c) # "Custom" THEN <<>>
    ELSE LET props == ParaAt(c)[1].texts[c.cur_act + 1].props
         IN  IF props = <<>> THEN <<>> ELSE props[1]

\* The advance landed on a Custom line whose command has no handler, or whose
\* handler failed.
CustomLineFailed ==
    /\ op' = "next_run" /\ run'.st = "found" /\ cur' # None
    /\ KindAt(cur'[1]) = "Custom"
    /\ CmdAt(cur'[1]) \notin {<<"x">>} \/ ~run'.line_ok

KindIn(loc, c) ==
    IF loc \notin DOMAIN GameOf(game).paras THEN ""
    ELSE LET G == GameOf(game).paras[loc]
         IN  IF c.cur_base_para \notin DOMAIN G THEN ""
             ELSE LET ps == G[c.cur_base_para]
                      ks == {k \in DOMAIN ps : ps[k].tag = c.cur_para}
                  IN  IF ks = {} THEN ""
                      ELSE LET p == ps[CHOOSE k \in ks : \A j \in ks : k <= j]
                           IN  IF c.cur_act + 1 \in DOMAIN p.texts
                               THEN p.texts[c.cur_act + 1].kind ELSE ""

\* The current run was rendered, and its lines in the primary locale and in
\* the base locale are of different kinds.
RenderedMismatch ==
    /\ op = "current_actions" /\ cur # None
    /\ KindIn(settings[1].lang, cur[1]) \in {"Text", "Switch", "Custom"}
    /\ KindIn(BaseLang, cur[1]) \in {"Text", "Switch", "Custom"}
    /\ KindIn(settings[1].lang, cur[1]) # KindIn(BaseLang, cur[1])

\* C15 (as the code has it): when the primary-locale line and the base-locale
\* line at a cursor materialize to different Action variants, merge_action
\* fails with a mismatch error, and the session logs it and returns the
\* default Action in its place.
C15_MismatchBecomesDefault ==
    RenderedMismatch
        => (~merge_out[1].ok /\ rendered # None /\ rendered[1].action = ActionEmpty)

\* C15 as stated: the mismatch error is never replaced by a default Action.
C15_MismatchSurfacesAsStated ==
    RenderedMismatch => (~merge_out[1].ok /\ rendered[1].action # ActionEmpty)

\* The custom line of paragraph "a", a text in locale "ja", was rendered: the
\* primary action is the default one, the secondary-locale action is Custom.
C15_Witness ==
    /\ RenderedMismatch
    /\ cur[1].cur_para = <<"a">> /\ cur[1].cur_act = 1
    /\ settings = Some(Settings("ja", Some(BaseLang)))
    /\ merge_in.primary # None /\ merge_in.primary[1].t = "Text"
    /\ merge_in.secondary # None /\ merge_in.secondary[1].t = "Custom"
    /\ rendered[1].action = ActionEmpty
    /\ rendered[1].base_action # None /\ rendered[1].base_action[1].t = "Custom"

\* ------------------------------------------------------- C16, C17, C18
\* merge_action was applied to two Actions of variant t.
MergedTwo(t) ==
    /\ op = "merge_action" /\ merge_out # None
    /\ merge_in.primary # None /\ merge_in.primary[1].t = t
    /\ merge_in.secondary # None /\ merge_in.secondary[1].t = t

\* C16: merging two Switches actions yields, at every option index present in
\* both, the text label of the primary and the enabled flag of the secondary;
\* the options only the primary has are kept as they are.
C16_SwitchesLabelPrimaryFlagSecondary ==
    MergedTwo("Switches")
        => LET p == merge_in.primary[1].switches
               b == merge_in.secondary[1].switches
               m == merge_out[1].action.switches
           IN  /\ merge_out[1].ok /\ merge_out[1].action.t = "Switches"
               /\ Len(m) = Len(p)
               /\ \A k \in 1..Len(p) :
                     /\ m[k].text = p[k].text
                     /\ m[k].enabled = IF k <= Len(b) THEN b[k].enabled ELSE p[k].enabled

\* Labels and flags differ at the first index; the primary has a second option.
C16_Witness ==
    /\ MergedTwo("Switches")
    /\ merge_in.primary[1].switches = <<Switch(<<"A">>, TRUE), Switch(<<"B">>, TRUE)>>
    /\ merge_in.secondary[1].switches = <<Switch(<<"B">>, FALSE)>>
    /\ merge_out[1].action.switches = <<Switch(<<"A">>, FALSE), Switch(<<"B">>, TRUE)>>

C18_MergeIdempotent ==
    (/\ op = "merge_action" /\ merge_out # None
     /\ merge_in.primary # None /\ merge_in.secondary = merge_in.primary)
        => (merge_out[1].ok /\ merge_out[1].action = merge_in.primary[1])

\* A text with a fragment, a character key and variables, merged with itself.
C18_Witness ==
    /\ op = "merge_action" /\ merge_out # None
    /\ merge_in.primary = Some(ActionText(<<<<"a">>>>, Some(<<"c">>), None, <<"k">> :> Num(1)))
    /\ merge_in.secondary = merge_in.primary
    /\ merge_out[1].action = merge_in.primary[1]

\* ------------------------------------------------------------------- C19
\* OpenGameStatus, in the order of its declaration.
Milestones == <<"LoadSettings", "LoadGlobalRecords", "LoadRecords", "Loaded">>

\* C19: open_game reports LoadSettings, LoadGlobalRecords, LoadRecords and
\* Loaded, each once and in that order; the settings are installed when
\* LoadGlobalRecords is reported, the global record when LoadRecords is, the
\* context when Loaded is; a load that fails installs the default value and
\* the next milestone is reported all the same.
C19_MilestonesInOrder ==
    /\ Len(status) <= Len(Milestones)
    /\ status = SubSeq(Milestones, 1, Len(status))
    /\ Len(status) >= 2 => settings # None
    /\ Len(status) >= 3 => global_record # None
    /\ Len(status) >= 4 <=> opened
    /\ (op = "open_game" /\ ~ret)
          => CASE Len(status) = 2 -> settings = Some([lang |-> BaseLang, sub_lang |-> None])
               [] Len(status) = 3 -> global_record = Some(GlobalRecordDefault)
               [] Len(status) = 4 -> records = <<>>
               [] OTHER -> FALSE

\* All four milestones were reported although the settings and the records
\* could not be loaded.
C19_Witness ==
    /\ status = Milestones /\ op = "open_game" /\ ~ret /\ opened
    /\ settings = Some([lang |-> BaseLang, sub_lang |-> None])
    /\ global_record # None
    /\ records = <<>>

\* ------------------------------------------------------------------- C20
\* C20: init_context with a record whose history is not empty makes that
\* history the session's, its last entry the current run, and that entry with
\* act_index one higher and nothing else changed the pending cursor.
C20_ResumeFromLastEntry ==
    [][(op' = "init_context" /\ records[arg'] # <<>>)
         => LET h == records[arg']
                e == h[Len(h)]
            IN  /\ history' = h
                /\ cur' = Some(e)
                /\ ctx' = [cur_base_para |-> e.cur_base_para, cur_para |-> e.cur_para,
                           cur_act |-> e.cur_act + 1, locals |-> e.locals]]_vars_all

\* Resumed from a record of two entries whose last one carries a choice.
C20_Witness ==
    /\ op = "init_context" /\ Len(history) = 2 /\ history = records[arg]
    /\ cur = Some(history[2]) /\ history[2].locals # EmptyMap
    /\ ctx.cur_act = history[2].cur_act + 1 /\ ctx.locals = history[2].locals

\* ------------------------------------------------------------------- C21
\* The cursors of the story of two paragraphs.
P1(act) == [cur_base_para |-> <<"p", "1">>, cur_para |-> <<"p", "1">>, cur_act |-> act,
            locals |-> EmptyMap]
P2(act) == [cur_base_para |-> <<"p", "1">>, cur_para |-> <<"p", "2">>, cur_act |-> act,
            locals |-> EmptyMap]

\* The first two advances after init_new, which the scenario and the code
\* agree on: p1 act 0, then p1 act 1 with a history of length 2.
FirstTwoAdvances ==
    /\ steps = 1 => (ret /\ cur = Some(P1(0)) /\ history = <<P1(0)>>)
    /\ steps = 2 => (ret /\ cur = Some(P1(1)) /\ history = <<P1(0), P1(1)>>)

\* C21 (as the code has it): p1 has two Text lines and a next_expr that gives
\* p2, which has one Text line.  After init_new the first advance returns p1
\* act 0, the second p1 act 1 (history of length 2), the third makes the
\* paragraph switch and returns p2 act 0 in the same call, and the fourth
\* finds no more content.
C21_ThreeAdvancesReachP2 ==
    game = "two"
        => /\ FirstTwoAdvances
           /\ steps = 3 => (/\ ret /\ cur = Some(P2(0)) /\ run.switched = 1
                            /\ history = <<P1(0), P1(1), P2(0)>>)
           /\ steps = 4 => (~ret /\ cur = None /\ history = <<P1(0), P1(1), P2(0)>>)

\* C21 as stated: the paragraph switch is the third advance and p2 act 0 is
\* what the fourth one visits.
C21_FourAdvancesAsStated ==
    game = "two"
        => /\ FirstTwoAdvances
           /\ steps = 4 => (ret /\ cur = Some(P2(0)))

\* The third advance after init_new has returned p2 act 0.
C21_Witness ==
    /\ game = "two" /\ op = "next_run" /\ steps = 3 /\ cur = Some(P2(0))
    /\ ctx = P2(1) /\ Len(history) = 3

\* ------------------------------------------------------------------- C22
SamePosition(a, b) == SameParagraph(a, b) /\ a.cur_act = b.cur_act

\* Where the search of an advance from c ends, by the base-locale tables.
EndOfHops(c, textRes) ==
    LET h == Hops(c, textRes, MaxLoop) IN h[Len(h)]

\* An advance from the pending cursor as the base-locale tables and the
\* pending cursor alone determine it: the line returned, the pending cursor
\* left, the history and the end of the story.
AdvanceByBaseTables(textRes) ==
    LET c == EndOfHops(ctx, textRes)
    IN  IF KindAt(c) = ""
        THEN /\ ~ret' /\ cur' = None
             /\ SamePosition(ctx', c)
             /\ history' = history
        ELSE /\ ret' /\ cur' # None
             /\ SamePosition(cur'[1], c)
             /\ SamePosition(ctx', next_of(c))
             /\ history' = IF KindAt(c) = "Text" THEN Append(history, cur'[1]) ELSE history
             /\ KindAt(c) \in {"Text", "Empty"} => cur'[1] = c

\* C22: navigation does not depend on the display locales.  What next_run
\* returns, the history and the end of the story are determined by the
\* base-locale tables, the pending cursor and the history; switch and
\* next_back_run are determined by the cursor, the flags and the history; and
\* none of the three changes the locales of the settings.
C22_NavigationIgnoresDisplayLocale ==
    [][/\ (op' = "next_run" /\ ~hung')
            => \E textRes \in TextResults : AdvanceByBaseTables(textRes)
       /\ (op' = "next_back_run" /\ Len(history) > 1)
            => /\ history' = pop(history)
               /\ cur' = Some(history[Len(history) - 1])
               /\ ctx' = next_of(history[Len(history) - 1])
       /\ (op' = "switch" /\ ~panicked')
            => /\ SamePosition(ctx', ctx) /\ history' = history /\ cur' = cur
       /\ op' \in PlayOps => settings' = settings]_vars_all

\* Under the primary locale "ja" an advance returned the fourth line of
\* paragraph a, which the "ja" table of the story does not have.
C22_Witness ==
    /\ op = "next_run" /\ ret /\ settings # None /\ settings[1].lang = "ja"
    /\ cur # None /\ SamePosition(cur[1], RawContext(<<"a">>, <<"a">>, 3, EmptyMap))
    /\ KindIn("ja", cur[1]) = "" /\ KindAt(cur[1]) = "Text"
    /\ Len(history) = 2

\* ------------------------------------------------------------------- C23
\* The paragraph of c is missing in the base locale and c looks for it in the
\* file of its own name.
MissingAtTopLevel(c) == ParaAt(c) = None /\ c.cur_base_para = c.cur_para

\* C23: when the advance stands at a cursor whose paragraph is missing in the
\* base locale and whose base_paragraph_id equals its paragraph_id, at its
\* start or after the transitions of its search, it ends there with no more
\* content, whether or not the id is empty, and does not change that cursor;
\* next_run of the session returns false, clears the current run and leaves
\* the history unchanged.
C23_MissingAtTopLevelEndsStory ==
    [][(/\ op' = "next_run"
        /\ \A textRes \in TextResults : MissingAtTopLevel(EndOfHops(ctx, textRes)))
         => /\ run'.st = "none" /\ ~hung' /\ ~panicked'
            /\ \E textRes \in TextResults : ctx' = EndOfHops(ctx, textRes)
            /\ MissingAtTopLevel(ctx) => ctx' = ctx
            /\ ret' = FALSE /\ cur' = None
            /\ history' = history]_vars_all

\* An advance from the cursor (b, b, 0), where b is not an empty id and the
\* story has no paragraph b, ended with no more content.
C23_Witness ==
    /\ op = "next_run" /\ ~ret /\ cur = None /\ run.st = "none"
    /\ run.switched = 0 /\ run.promoted = 0
    /\ ctx.cur_base_para = <<"b">> /\ ctx.cur_para = <<"b">> /\ history # <<>>
    /\ ParaAt(ctx) = None

\* ------------------------------------------------------------------- C24
\* The places of the search trace h at which the paragraph is missing and is
\* not looked for in the file of its own name.
Promotions(h) ==
    {i \in 1..Len(h) : ParaAt(h[i]) = None /\ h[i].cur_base_para # h[i].cur_para}

\* C24: when the paragraph is missing in the base locale and base_paragraph_id
\* differs from paragraph_id, the advance sets base_paragraph_id to
\* paragraph_id, leaves paragraph_id, act_index and the locals as they are, and
\* goes on in the same call: the caller gets the line found after it, or the
\* end of the story, from that one call.  Right after such a promotion the
\* paragraph is found or the advance ends, so no two promotions follow each
\* other.
C24_PromotionRetriesInSameCall ==
    [][(op' = "next_run" /\ ~hung')
         => \E textRes \in TextResults :
              LET h == Hops(ctx, textRes, MaxLoop)
                  e == h[Len(h)]
              IN  /\ run'.promoted = Cardinality(Promotions(h))
                  /\ \A i \in Promotions(h) :
                        /\ i < Len(h)
                        /\ h[i + 1].cur_base_para = h[i].cur_para
                        /\ h[i + 1].cur_para = h[i].cur_para
                        /\ h[i + 1].cur_act = h[i].cur_act
                        /\ h[i + 1].locals = h[i].locals
                        /\ ParaAt(h[i + 1]) # None \/ i + 1 = Len(h)
                        /\ i + 1 \notin Promotions(h)
                  /\ ~panicked'
                  /\ IF KindAt(e) = "" THEN ~ret' /\ ctx' = e
                     ELSE /\ ret' /\ SamePosition(cur'[1], e)
                          /\ KindAt(e) = "Text" => cur'[1].locals = ctx.locals]_vars_all

\* One advance left paragraph s, did not find u in the file s, looked in the
\* file u and returned its first line.
C24_Witness ==
    /\ game = "climb" /\ op = "next_run" /\ ret /\ run.promoted = 1 /\ run.switched = 1
    /\ cur = Some(RawContext(<<"u">>, <<"u">>, 0, EmptyMap))
    /\ history = <<RawContext(<<"s">>, <<"s">>, 0, EmptyMap),
                   RawContext(<<"u">>, <<"u">>, 0, EmptyMap)>>

\* ------------------------------------------------------------------- C25
\* The paragraph of c exists in the base locale and has no line at the act of c.
Exhausted(c) == ParaAt(c) # None /\ c.cur_act + 1 \notin DOMAIN ParaAt(c)[1].texts

\* The value of the next_expr of the paragraph of c: the empty id when there
\* is no next_expr or its evaluation fails.
NextValue(c, textRes) ==
    LET p == ParaAt(c)[1]
    IN  IF p.next = None THEN <<>>
        ELSE LET r == call(p.next[1], c.locals, textRes) IN IF r.ok THEN r.s ELSE <<>>

\* C25: when the paragraph of the pending cursor exists but has no line at
\* act_index, the advance sets paragraph_id to the value of next_expr (the
\* empty id when next_expr is absent or its evaluation fails) and act_index to
\* 0 and goes on from there; when the value is the empty id, the same call
\* ends the story and returns no more content.
C25_ExhaustedParagraphFollowsNext ==
    [][(op' = "next_run" /\ Exhausted(ctx))
         => \E textRes \in TextResults :
              LET h == Hops(ctx, textRes, MaxLoop)
                  X == {i \in 1..(Len(h) - 1) : Exhausted(h[i])}
                  n == [ctx EXCEPT !.cur_para = NextValue(ctx, textRes), !.cur_act = 0]
              IN  /\ ~hung' => run'.switched = Cardinality(X)
                  /\ \A i \in X :
                        h[i + 1] = [h[i] EXCEPT !.cur_para = NextValue(h[i], textRes),
                                                !.cur_act = 0]
                  /\ KindAt(n) # ""
                        => /\ ~hung' /\ ret' /\ run'.switched = 1
                           /\ SamePosition(cur'[1], n) /\ SamePosition(ctx', next_of(n))
                  /\ (\E i \in X : NextValue(h[i], textRes) = <<>>)
                        => /\ ~hung' /\ ~ret' /\ cur' = None
                           /\ ctx'.cur_para = <<>> /\ ctx'.cur_act = 0
                           /\ ctx'.locals = ctx.locals
                           /\ history' = history]_vars_all

\* The evaluation of the next_expr of an exhausted paragraph failed: the
\* advance went on with the empty id and ended the story in the same call.
C25_Witness ==
    /\ game = "chain" /\ op = "next_run" /\ ~ret /\ cur = None /\ ~hung
    /\ run.st = "none" /\ run.switched = 3
    /\ ctx.cur_para = <<>> /\ ctx.cur_act = 0

\* ------------------------------------------------------------------- C26
\* The local key of option k: k in decimal.
KeyOf(k) == CASE k = 0 -> <<"0">> [] k = 1 -> <<"1">> [] k = 2 -> <<"2">> [] OTHER -> <<"3">>

\* Option k is offered under the locals: no entry under its key, or a unit
\* entry, or an entry that coerces to true.
EnabledBy(locals, k) ==
    IF KeyOf(k) \notin DOMAIN locals THEN TRUE
    ELSE IF locals[KeyOf(k)] = Unit THEN TRUE
    ELSE get_bool(locals[KeyOf(k)])

\* The number of options of the Switch line c addresses.
OptionsAt(c) == Len(ParaAt(c)[1].texts[c.cur_act + 1].switches)

\* C26: an advance that lands on a Switch line with n options records exactly
\* n enabled flags, whatever flags an earlier switch left; option k is enabled
\* iff the locals have no entry under the decimal key k, or a unit entry, and
\* otherwise iff the entry coerces to true.
C26_SwitchFlagsFromLocals ==
    [][(op' = "next_run" /\ cur' # None /\ KindAt(cur'[1]) = "Switch")
         => /\ Len(switches') = OptionsAt(cur'[1])
            /\ \A k \in 0..(OptionsAt(cur'[1]) - 1) :
                  switches'[k + 1] = EnabledBy(cur'[1].locals, k)]_vars_all

\* The advance landed on the switch of two options with the locals
\* "0" -> false and "1" -> unit: the first option is disabled, the second
\* offered.
C26_Witness ==
    /\ op = "next_run" /\ cur # None /\ KindAt(cur[1]) = "Switch"
    /\ <<"0">> \in DOMAIN cur[1].locals /\ cur[1].locals[<<"0">>] = Bool(FALSE)
    /\ <<"1">> \in DOMAIN cur[1].locals /\ cur[1].locals[<<"1">>] = Unit
    /\ switches = <<FALSE, TRUE>>

\* ------------------------------------------------------------------- C27
\* C27: the end of the story is absorbing for forward navigation.  Once
\* next_run has returned false, every later next_run with no next_back_run,
\* init_new or init_context in between returns false as well and leaves the
\* pending cursor, the history and the GlobalRecord unchanged.
C27_EndIsAbsorbing ==
    [][(ended /\ op' = "next_run")
         => /\ ret' = FALSE /\ ended' /\ ~hung' /\ ~panicked'
            /\ ctx' = ctx
            /\ history' = history
            /\ global_record' = global_record /\ updated' = None]_vars_all

\* The story ended after paragraph b1, which is entered with choice 1; the
\* choice was then changed to 0 by a switch call, and a next_run on the ended
\* story returned false once more.
C27_Witness ==
    /\ game = "branch" /\ op = "next_run" /\ ended /\ ~ret /\ cur = None
    /\ run.st = "none" /\ run.switched = 0 /\ run.promoted = 0
    /\ Q \in DOMAIN ctx.locals /\ ctx.locals[Q] = Num(0)
    /\ ctx.cur_para = <<>> /\ history # <<>>
    /\ history[Len(history)].cur_para = <<"b", "1">>

\* ------------------------------------------------------------------- C28
NavOps == {"init_new", "init_context", "next_run", "next_back_run", "switch"}

\* The pending cursor is one act past the current run.
PendingFollowsCurrent ==
    cur' # None => (SameParagraph(ctx', cur'[1]) /\ ctx'.cur_act = cur'[1].cur_act + 1)

\* The step leaves the current run as it was and it was absent: a switch, a
\* next_back_run on a history too short, an advance that does not return.
KeptAbsent ==
    /\ cur = None
    /\ \/ op' = "switch"
       \/ op' = "next_back_run" /\ ~ret'
       \/ op' = "next_run" /\ hung'

====
